---- MODULE Spec2Model ----
(***************************************************************************)
(* go-sys-monitor: a Bubble Tea terminal dashboard (src/main.go).          *)
(*                                                                         *)
(* The model has three specifications over one set of variables:           *)
(*   Spec       the program: main, initialModel, the Bubble Tea event loop *)
(*              dispatching tickMsg / KeyMsg / QuitMsg to model.Update,    *)
(*              and model.View after every Update;                         *)
(*   DiskSpec   GetDiskMetrics applied to every bounded provider answer;   *)
(*   SizeSpec   convertSize applied to every bounded byte count.           *)
(*                                                                         *)
(* uint64 byte counts exceed TLC's 32-bit integers (2 GiB = 2^31), so a    *)
(* uint64 is a big-endian sequence of base-1024 limbs without leading      *)
(* zeros (<<>> is 0, <<1, 0, 0, 0>> is 2^30) and the arithmetic of the     *)
(* code (/, >=, decimal formatting) is done on limbs.                      *)
(***************************************************************************)
EXTENDS Integers, Sequences, FiniteSets, TLC

VARIABLES
    pc,        \* position of the process: "main", "run", "view", "idle", "exited"
    m,         \* the Bubble Tea model value held by the event loop (type model)
    ticks,     \* number of tea.Tick timers armed or tickMsg not yet dispatched
    quits,     \* number of tea.Quit commands whose QuitMsg is not yet dispatched
    ev,        \* the event last dispatched (the msg handed to Update, or a phase)
    answers,   \* outcome of each provider query made by the last handler
    cycle,     \* parity of the next assembly: the stamp its readings carry
    frame,     \* last frame handed to the renderer (NoFrame before the first)
    exit,      \* how the process ended: "none", "quit", "fatal", "runerr", "panic"
    exitCode,  \* process exit status (NoCode while running)
    stdout,    \* messages written to standard output
    stderr,    \* messages written to standard error
    call,      \* DiskSpec / SizeSpec: the pure call under check
    queue,     \* QueueSpec: the messages waiting on the loop's channel, oldest first
    late,      \* QueueSpec: assemblies started while a tea.Quit command was pending
    clock      \* TimeSpec: elapsed times in milliseconds (see NoClock)

vars == <<pc, m, ticks, quits, ev, answers, cycle, frame, exit, exitCode,
          stdout, stderr, call, queue, late, clock>>

\* what only QueueSpec and TimeSpec follow
sched == <<queue, late, clock>>

----------------------------------------------------------------------------
(* Bounds *)

MaxCores == 2      \* per-core lists returned by cpu.Percent have 0..MaxCores entries
MaxParts == 1      \* disk.Partitions lists have 0..MaxParts entries in Spec
MaxEnum == 3       \* disk.Partitions lists have 0..MaxEnum entries in DiskSpec
MaxLimbs == 4      \* byte counts in SizeSpec have at most MaxLimbs limbs
MaxPending == 2    \* at most MaxPending key presses wait on the channel in QueueSpec
MaxQuits == 1      \* at most MaxQuits undelivered QuitMsg

----------------------------------------------------------------------------
(* uint64 arithmetic on base-1024 limbs *)

Kibi == 1024
Mebi == 1024 * 1024

RECURSIVE Norm(_)
Norm(a) == IF a # <<>> /\ Head(a) = 0 THEN Norm(Tail(a)) ELSE a

\* long division of a by d (0 < d <= Mebi): <<quotient limbs, remainder>>
RECURSIVE DivStep(_, _, _, _)
DivStep(a, d, q, r) ==
    IF a = <<>> THEN <<Norm(q), r>>
    ELSE LET cur == r * Kibi + Head(a)
         IN  DivStep(Tail(a), d, Append(q, cur \div d), cur % d)

Div(a, d) == DivStep(a, d, <<>>, 0)[1]
Mod(a, d) == DivStep(a, d, <<>>, 0)[2]

\* a >= b on normalised limb sequences
RECURSIVE GeqLimbs(_, _)
GeqLimbs(a, b) ==
    IF Len(a) # Len(b) THEN Len(a) > Len(b)
    ELSE IF a = <<>> THEN TRUE
    ELSE IF Head(a) # Head(b) THEN Head(a) > Head(b)
    ELSE GeqLimbs(Tail(a), Tail(b))

U64(n) == Norm(<<n \div Mebi, (n \div Kibi) % Kibi, n % Kibi>>)

DigitChar(d) ==
    CASE d = 0 -> "0" [] d = 1 -> "1" [] d = 2 -> "2" [] d = 3 -> "3"
      [] d = 4 -> "4" [] d = 5 -> "5" [] d = 6 -> "6" [] d = 7 -> "7"
      [] d = 8 -> "8" [] d = 9 -> "9"

\* strconv.FormatUint(a, 10)
RECURSIVE FormatDigits(_, _)
FormatDigits(a, acc) ==
    IF a = <<>> THEN acc
    ELSE FormatDigits(Div(a, 10), DigitChar(Mod(a, 10)) \o acc)

FormatUint(a) == IF a = <<>> THEN "0" ELSE FormatDigits(a, "")

----------------------------------------------------------------------------
(* convertSize, src/main.go:154-167 *)

convertSizeStrict(size) ==
    LET conv == Div(size, Mebi)
    IN  IF GeqLimbs(conv, U64(Kibi)) /\ conv # U64(Kibi)
        THEN FormatUint(Div(conv, Kibi)) \o "G"
        ELSE FormatUint(conv) \o "M"

\* convertSize in decimal units (10^6 and 10^3)
convertSizeDecimal(size) ==
    LET conv == Div(size, 1000 * 1000)
    IN  IF GeqLimbs(conv, U64(1000))
        THEN FormatUint(Div(conv, 1000)) \o "G"
        ELSE FormatUint(conv) \o "M"

convertSize(size) ==
    LET conv == Div(size, Mebi)
    IN  IF GeqLimbs(conv, U64(Kibi))
        THEN FormatUint(Div(conv, Kibi)) \o "G"
        ELSE FormatUint(conv) \o "M"

----------------------------------------------------------------------------
(* The metrics provider (gopsutil): what a query can answer *)

AllDevices == <<"sda1", "sdb1", "sdc1">>
DevicesRun == {AllDevices[1], AllDevices[2]}
DevicesEnum == {AllDevices[i] : i \in 1..Len(AllDevices)}

SeqsUpTo(S, n) == UNION {[1..k -> S] : k \in 0..n}

\* cpu.Info / cpu.Counts / cpu.Percent: an error, an empty Info list, or n cores
CPUAnswers ==
    {[res |-> "err", n |-> 0], [res |-> "noinfo", n |-> 0]}
        \cup {[res |-> "ok", n |-> k] : k \in 0..MaxCores}

\* mem.VirtualMemory: an error or used/total byte counts
MemOK == [res |-> "ok", used |-> <<4, 0, 0, 0>>, total |-> <<8, 0, 0, 0>>]
MemAnswers == {[res |-> "err", used |-> <<>>, total |-> <<>>], MemOK}

\* disk.Partitions: an error, or a list of partitions, each with the outcome
\* of its disk.Usage query
PartAnswers(devs) == [dev : devs, ok : BOOLEAN]
DiskNone == [err |-> FALSE, parts |-> <<>>]
DiskAnswers(devs, n) ==
    {[err |-> TRUE, parts |-> <<>>]}
        \cup {[err |-> FALSE, parts |-> ps] : ps \in SeqsUpTo(PartAnswers(devs), n)}

\* the answers to one assembly (CPU, memory, disk in this order); a query
\* that is never made, because an earlier one failed, has no answer to choose
Assemblies ==
    {t \in CPUAnswers \X MemAnswers \X DiskAnswers(DevicesRun, MaxParts) :
        /\ t[1].res # "ok" => t[2] = MemOK
        /\ (t[1].res # "ok" \/ t[2].res # "ok") => t[3] = DiskNone}

\* disk.Usage of a mounted device
UsageOf(dev) ==
    CASE dev = "sda1" -> [Used |-> <<500, 0, 0>>, Total |-> <<2, 0, 0, 0>>,
                          Free |-> <<1, 524, 0, 0>>]
      [] dev = "sdb1" -> [Used |-> <<1023, 0, 0>>, Total |-> <<1, 0, 0, 0>>,
                          Free |-> <<1, 0, 0>>]
      [] OTHER        -> [Used |-> <<>>, Total |-> <<1023, 1023>>,
                          Free |-> <<1023, 1023>>]

\* the i-th (0-based) entry of cpu.Percent at assembly stamp s, in percent
PercentAt(i, s) == ((i + 1) * 25 + (IF s THEN 50 ELSE 0)) % 101

----------------------------------------------------------------------------
(* Data model, src/main.go:28-65 *)

ZeroCPU == [modelName |-> "", frequency |-> 0, totalCPU |-> 0, logicalCPU |-> 0,
            percentUsage |-> <<>>, cycle |-> FALSE]
ZeroMem == [memoryUsed |-> <<>>, memoryTotal |-> <<>>, cycle |-> FALSE]
ZeroDisk == [mountedPartitions |-> <<>>, cycle |-> FALSE]
NoTable == [rows |-> <<>>, height |-> 0]
NoProgress == [colorA |-> "", colorB |-> "", scaled |-> FALSE]
ZeroModel == [sys |-> [cpu |-> ZeroCPU, memory |-> ZeroMem, disk |-> ZeroDisk],
              cpuProgress |-> <<>>, memProgress |-> NoProgress,
              diskTable |-> NoTable]

\* GetCPUMetrics, src/main.go:82-104; stat[0] panics on an empty Info list
GetCPUMetrics(a, s) ==
    CASE a.res = "err"    -> [err |-> TRUE, panic |-> FALSE, val |-> ZeroCPU]
      [] a.res = "noinfo" -> [err |-> FALSE, panic |-> TRUE, val |-> ZeroCPU]
      [] OTHER ->
           [err |-> FALSE, panic |-> FALSE,
            val |-> [modelName |-> "cpu0", frequency |-> 2400,
                     totalCPU |-> a.n, logicalCPU |-> (a.n + 1) \div 2,
                     percentUsage |-> [i \in 1..a.n |-> PercentAt(i - 1, s)],
                     cycle |-> s]]

\* GetMemMetrics, src/main.go:106-112
GetMemMetrics(a, s) ==
    IF a.res = "err" THEN [err |-> TRUE, val |-> ZeroMem]
    ELSE [err |-> FALSE,
          val |-> [memoryUsed |-> a.used, memoryTotal |-> a.total, cycle |-> s]]

PartitionMetrics(p) ==
    [devName |-> "/dev/" \o p.dev, mountPoint |-> "/mnt/" \o p.dev,
     fsType |-> "ext4", freeDisk |-> UsageOf(p.dev).Free,
     usedDisk |-> UsageOf(p.dev).Used, totalDisk |-> UsageOf(p.dev).Total]

\* the loop of GetDiskMetrics, src/main.go:122-128
RECURSIVE DiskLoopBreak(_, _)
DiskLoopBreak(parts, acc) ==
    IF parts = <<>> THEN acc
    ELSE IF ~Head(parts).ok THEN acc
    ELSE DiskLoopBreak(Tail(parts), Append(acc, PartitionMetrics(Head(parts))))

RECURSIVE DiskLoop(_, _)
DiskLoop(parts, acc) ==
    IF parts = <<>> THEN acc
    ELSE IF ~Head(parts).ok THEN DiskLoop(Tail(parts), acc)
    ELSE DiskLoop(Tail(parts), Append(acc, PartitionMetrics(Head(parts))))

\* GetDiskMetrics, src/main.go:114-131
GetDiskMetrics(a, s) ==
    IF a.err THEN [err |-> TRUE, val |-> ZeroDisk]
    ELSE [err |-> FALSE,
          val |-> [mountedPartitions |-> DiskLoop(a.parts, <<>>), cycle |-> s]]

\* NewProgress, src/main.go:139-141
NewProgress == [colorA |-> "#FF7CCB", colorB |-> "#FDFF8C", scaled |-> TRUE]

\* convertSize of every byte count disk.Usage can report, computed once
UsageSizes ==
    UNION {{UsageOf(AllDevices[i]).Used, UsageOf(AllDevices[i]).Total,
            UsageOf(AllDevices[i]).Free} : i \in 1..Len(AllDevices)}
SizeText == [a \in UsageSizes |-> convertSize(a)]

\* getDiskTableRows, src/main.go:169-179
getDiskTableRows(diskMetrics) ==
    [i \in 1..Len(diskMetrics.mountedPartitions) |->
        LET disk == diskMetrics.mountedPartitions[i]
        IN  <<disk.devName, disk.mountPoint, disk.fsType,
              SizeText[disk.usedDisk], SizeText[disk.totalDisk],
              SizeText[disk.freeDisk]>>]

----------------------------------------------------------------------------
(* initialModel, src/main.go:181-220 *)

NoAnswers == [cpu |-> "none", mem |-> "none", disk |-> "none"]

Fatal(log, ans, model) ==
    [outcome |-> "fatal", log |-> log, model |-> model, cmd |-> "none",
     answers |-> ans]

Panicked(ans, model) ==
    [outcome |-> "panic", log |-> "", model |-> model, cmd |-> "none",
     answers |-> ans]

TableOf(d) ==
    [rows |-> getDiskTableRows(d), height |-> Len(d.mountedPartitions) + 1]

initialModelBuild(c, mm, d) ==
    [sys |-> [cpu |-> c.val, memory |-> mm.val, disk |-> d.val],
     cpuProgress |-> [i \in 1..Len(c.val.percentUsage) |-> NewProgress],
     memProgress |-> NewProgress,
     diskTable |-> TableOf(d.val)]

\* initialModel that drops the error of GetDiskMetrics
initialModelIgnoreDisk(ca, ma, da, s) ==
    LET c  == GetCPUMetrics(ca, s)
        mm == GetMemMetrics(ma, s)
        d  == GetDiskMetrics(da, s)
    IN  CASE c.panic ->
               Panicked([NoAnswers EXCEPT !.cpu = "panic"], ZeroModel)
          [] ~c.panic /\ c.err ->
               Fatal("There was some error getting CPU metrics: ",
                     [NoAnswers EXCEPT !.cpu = "err"], ZeroModel)
          [] ~c.panic /\ ~c.err /\ mm.err ->
               Fatal("There was some error getting memory metrics: ",
                     [cpu |-> "ok", mem |-> "err", disk |-> "none"], ZeroModel)
          [] OTHER ->
               [outcome |-> "ok", log |-> "", model |-> initialModelBuild(c, mm, d),
                cmd |-> "none",
                answers |-> [cpu |-> "ok", mem |-> "ok",
                             disk |-> IF d.err THEN "err" ELSE "ok"]]

initialModel(ca, ma, da, s) ==
    LET c  == GetCPUMetrics(ca, s)
        mm == GetMemMetrics(ma, s)
        d  == GetDiskMetrics(da, s)
    IN  CASE c.panic ->
               Panicked([NoAnswers EXCEPT !.cpu = "panic"], ZeroModel)
          [] ~c.panic /\ c.err ->
               Fatal("There was some error getting CPU metrics: ",
                     [NoAnswers EXCEPT !.cpu = "err"], ZeroModel)
          [] ~c.panic /\ ~c.err /\ mm.err ->
               Fatal("There was some error getting memory metrics: ",
                     [cpu |-> "ok", mem |-> "err", disk |-> "none"], ZeroModel)
          [] ~c.panic /\ ~c.err /\ ~mm.err /\ d.err ->
               Fatal("There was some error getting disk metrics: ",
                     [cpu |-> "ok", mem |-> "ok", disk |-> "err"], ZeroModel)
          [] OTHER ->
               [outcome |-> "ok", log |-> "", model |-> initialModelBuild(c, mm, d),
                cmd |-> "none",
                answers |-> [cpu |-> "ok", mem |-> "ok", disk |-> "ok"]]

----------------------------------------------------------------------------
(* model.Update, src/main.go:226-267 *)

Keys == {"q", "ctrl+c", "x"}
QuitKeys == {"ctrl+c", "q"}

KeyMsg(k) == [type |-> "key", key |-> k]
tickMsg == [type |-> "tick", key |-> ""]

Returned(model, cmd, ans) ==
    [outcome |-> "ok", log |-> "", model |-> model, cmd |-> cmd, answers |-> ans]

\* the assignments without m.sys.memory = mem
UpdateAssignPartial(model, c, mm, d) ==
    [model EXCEPT !.diskTable = TableOf(d.val),
                  !.sys = [cpu |-> c.val, memory |-> model.sys.memory,
                           disk |-> d.val]]

\* the assignments with SetRows but without SetHeight
UpdateAssignNoHeight(model, c, mm, d) ==
    [model EXCEPT !.diskTable = [rows   |-> getDiskTableRows(d.val),
                                 height |-> model.diskTable.height],
                  !.sys = [cpu |-> c.val, memory |-> mm.val, disk |-> d.val]]

\* the assignments with one more widget per reported core on every tick
UpdateAssignGrow(model, c, mm, d) ==
    [model EXCEPT !.diskTable = TableOf(d.val),
                  !.cpuProgress =
                      @ \o [i \in 1..Len(c.val.percentUsage) |-> NewProgress],
                  !.sys = [cpu |-> c.val, memory |-> mm.val, disk |-> d.val]]

\* the assignments of the tickMsg case, src/main.go:256-260
UpdateAssign(model, c, mm, d) ==
    [model EXCEPT !.diskTable = TableOf(d.val),
                  !.sys = [cpu |-> c.val, memory |-> mm.val, disk |-> d.val]]

\* the tickMsg case keeping the last good snapshot and retrying on an error
UpdateTickRetry(model, ca, ma, da, s) ==
    LET c  == GetCPUMetrics(ca, s)
        mm == GetMemMetrics(ma, s)
        d  == GetDiskMetrics(da, s)
    IN  CASE c.panic ->
               Panicked([NoAnswers EXCEPT !.cpu = "panic"], model)
          [] ~c.panic /\ c.err ->
               Returned(model, "tick", [NoAnswers EXCEPT !.cpu = "err"])
          [] ~c.panic /\ ~c.err /\ mm.err ->
               Returned(model, "tick",
                        [cpu |-> "ok", mem |-> "err", disk |-> "none"])
          [] ~c.panic /\ ~c.err /\ ~mm.err /\ d.err ->
               Returned(model, "tick",
                        [cpu |-> "ok", mem |-> "ok", disk |-> "err"])
          [] OTHER ->
               Returned(UpdateAssign(model, c, mm, d), "tick",
                        [cpu |-> "ok", mem |-> "ok", disk |-> "ok"])

\* the tickMsg case, src/main.go:240-261
UpdateTick(model, ca, ma, da, s) ==
    LET c  == GetCPUMetrics(ca, s)
        mm == GetMemMetrics(ma, s)
        d  == GetDiskMetrics(da, s)
    IN  CASE c.panic ->
               Panicked([NoAnswers EXCEPT !.cpu = "panic"], model)
          [] ~c.panic /\ c.err ->
               Fatal("There was some error getting CPU metrics: ",
                     [NoAnswers EXCEPT !.cpu = "err"], model)
          [] ~c.panic /\ ~c.err /\ mm.err ->
               Fatal("There was some error getting memory metrics: ",
                     [cpu |-> "ok", mem |-> "err", disk |-> "none"], model)
          [] ~c.panic /\ ~c.err /\ ~mm.err /\ d.err ->
               Fatal("There was some error getting disk metrics: ",
                     [cpu |-> "ok", mem |-> "ok", disk |-> "err"], model)
          [] OTHER ->
               Returned(UpdateAssign(model, c, mm, d), "tick",
                        [cpu |-> "ok", mem |-> "ok", disk |-> "ok"])

\* the tea.KeyMsg case with "ctrl+c" missing from the case list
UpdateKeyOnlyQ(model, key) ==
    IF key = "q" THEN Returned(model, "quit", NoAnswers)
    ELSE Returned(model, "none", NoAnswers)

\* the tea.KeyMsg case returning doTick() for the keys that do not quit
UpdateKeyRearm(model, key) ==
    IF key \in QuitKeys THEN Returned(model, "quit", NoAnswers)
    ELSE Returned(model, "tick", NoAnswers)

\* the tea.KeyMsg case quitting on any key
UpdateKeyAnyKey(model, key) == Returned(model, "quit", NoAnswers)

\* the tea.KeyMsg case, src/main.go:230-238
UpdateKey(model, key) ==
    IF key \in QuitKeys THEN Returned(model, "quit", NoAnswers)
    ELSE Returned(model, "none", NoAnswers)

Update(model, msg, ca, ma, da, s) ==
    CASE msg.type = "key"  -> UpdateKey(model, msg.key)
      [] msg.type = "tick" -> UpdateTick(model, ca, ma, da, s)
      [] OTHER             -> Returned(model, "none", NoAnswers)

----------------------------------------------------------------------------
(* model.View, src/main.go:269-295 *)

NoFrame == [rendered |-> FALSE, cpuInfo |-> <<>>, cpuLines |-> <<>>,
            memLine |-> <<>>, memBar |-> <<>>, table |-> NoTable]

\* progress.Model.ViewAs(percent): the bar of widget w filled to num/den
ViewAs(w, num, den) == <<w, num, den>>

Itoa(n) == FormatUint(U64(n))

\* FormatUint of every byte count mem.VirtualMemory can report, computed once
MemSizes == {ZeroMem.memoryUsed, ZeroMem.memoryTotal, MemOK.used, MemOK.total}
UintText == [a \in MemSizes |-> FormatUint(a)]

\* the per-core loop, src/main.go:279-281 (i is the 0-based index of the code)
CpuLines(model) ==
    [j \in 1..Len(model.sys.cpu.percentUsage) |->
        LET i   == j - 1
            per == model.sys.cpu.percentUsage[j]
        IN  [label |-> "CPU " \o Itoa(i + 1) \o ": ",
             bar   |-> ViewAs(model.cpuProgress[i + 1], per, 100)]]

\* m.cpuProgress[i] with i >= len(m.cpuProgress): index out of range
ViewPanics(model) ==
    \E j \in 1..Len(model.sys.cpu.percentUsage) : j > Len(model.cpuProgress)

View(model) ==
    [rendered |-> TRUE,
     cpuInfo  |-> <<model.sys.cpu.modelName, model.sys.cpu.frequency,
                    model.sys.cpu.totalCPU, model.sys.cpu.logicalCPU>>,
     cpuLines |-> CpuLines(model),
     memLine  |-> <<UintText[model.sys.memory.memoryUsed],
                    UintText[model.sys.memory.memoryTotal]>>,
     memBar   |-> ViewAs(model.memProgress, model.sys.memory.memoryUsed,
                         model.sys.memory.memoryTotal),
     table    |-> model.diskTable]

----------------------------------------------------------------------------
(* The program: main (src/main.go:297-303) and the Bubble Tea event loop *)

NoCode == 0 - 1
NoCall == [fn |-> "none", arg |-> <<>>, done |-> FALSE, ret |-> <<>>]
Phase(t) == [type |-> t, key |-> ""]

\* exit status of a panic inside the event loop: Run recovers it and returns
\* with or without an error, or the Go runtime aborts the process
LoopPanicCodes == {0, 1, 2}

\* clock: since = time since the last assembly started, timer = time left on
\* the armed tea.Tick timer, latency = duration of the last assembly, prev =
\* duration of the assembly before it, interval = time between the starts of
\* these two assemblies (NoTime: not applicable)
NoTime == 0 - 1
NoClock == [since |-> NoTime, timer |-> NoTime, latency |-> NoTime,
            prev |-> NoTime, interval |-> NoTime]

InitProgram ==
    /\ pc = "main"
    /\ m = ZeroModel
    /\ ticks = 0
    /\ quits = 0
    /\ ev = Phase("none")
    /\ answers = NoAnswers
    /\ cycle = FALSE
    /\ frame = NoFrame
    /\ exit = "none"
    /\ exitCode = NoCode
    /\ stdout = <<>>
    /\ stderr = <<>>
    /\ queue = <<>>
    /\ late = 0
    /\ clock = NoClock

Init == InitProgram /\ call = NoCall

\* main calls initialModel() before tea.NewProgram, src/main.go:298;
\* S is the set of answers the provider can give
InitialModelFrom(S) ==
    /\ pc = "main"
    /\ \E t \in S :
         LET r == initialModel(t[1], t[2], t[3], cycle)
         IN  /\ ev' = Phase("initialModel")
             /\ answers' = r.answers
             /\ cycle' = ~cycle
             /\ CASE r.outcome = "ok" ->
                       /\ m' = r.model
                       /\ pc' = "run"
                       /\ UNCHANGED <<exit, exitCode, stderr>>
                  [] r.outcome = "fatal" ->
                       \* log.Fatal: message on standard error, os.Exit(1)
                       /\ m' = r.model
                       /\ pc' = "exited"
                       /\ exit' = "fatal"
                       /\ exitCode' = 1
                       /\ stderr' = Append(stderr, r.log)
                  [] OTHER ->
                       \* a panic outside the event loop: the runtime exits with 2
                       /\ m' = r.model
                       /\ pc' = "exited"
                       /\ exit' = "panic"
                       /\ exitCode' = 2
                       /\ stderr' = Append(stderr, "panic: index out of range")
    /\ UNCHANGED <<ticks, quits, frame, stdout, call>>

InitialModel == InitialModelFrom(Assemblies) /\ UNCHANGED sched

\* p.Run() starts the loop: model.Init() arms the first timer
\* (src/main.go:222-224, doTick 133-137) and the first frame is rendered
StartLoop ==
    /\ pc = "run"
    /\ pc' = "view"
    /\ ticks' = ticks + 1
    /\ ev' = Phase("init")
    /\ answers' = NoAnswers
    /\ UNCHANGED <<m, quits, cycle, frame, exit, exitCode, stdout, stderr, call>>

StartProgram == StartLoop /\ UNCHANGED sched

\* p.Run() returns an error: src/main.go:299-302
RunError ==
    /\ pc \in {"run", "idle"}
    /\ pc' = "exited"
    /\ exit' = "runerr"
    /\ exitCode' = 1
    /\ stdout' = Append(stdout, "Alas, there's been an error: ")
    /\ ev' = Phase("runerr")
    /\ answers' = NoAnswers
    /\ UNCHANGED <<m, ticks, quits, cycle, frame, stderr, call>>

RunFails == RunError /\ UNCHANGED sched

\* the event loop hands msg to model.Update and acts on what it returns
Dispatch(msg, t) ==
    /\ pc = "idle"
    /\   LET r    == Update(m, msg, t[1], t[2], t[3], cycle)
             used == IF msg.type = "tick" THEN 1 ELSE 0
         IN  /\ ev' = msg
             /\ answers' = r.answers
             /\ cycle' = IF msg.type = "tick" THEN ~cycle ELSE cycle
             /\ CASE r.outcome = "ok" ->
                       /\ m' = r.model
                       /\ pc' = "view"
                       /\ ticks' = ticks - used + (IF r.cmd = "tick" THEN 1 ELSE 0)
                       /\ quits' = quits + (IF r.cmd = "quit" THEN 1 ELSE 0)
                       /\ UNCHANGED <<exit, exitCode, stderr>>
                  [] r.outcome = "fatal" ->
                       /\ m' = m
                       /\ pc' = "exited"
                       /\ exit' = "fatal"
                       /\ exitCode' = 1
                       /\ stderr' = Append(stderr, r.log)
                       /\ ticks' = ticks - used
                       /\ UNCHANGED quits
                  [] OTHER ->
                       /\ m' = m
                       /\ pc' = "exited"
                       /\ exit' = "panic"
                       /\ exitCode' \in LoopPanicCodes
                       /\ ticks' = ticks - used
                       /\ UNCHANGED <<quits, stderr>>
    /\ UNCHANGED <<frame, stdout, call>>

\* the answers handed to a handler that makes no query
NoQuery == <<[res |-> "ok", n |-> 0], MemOK, DiskNone>>

\* a tickMsg is pending: Update runs one assembly
DispatchTick ==
    /\ ticks > 0
    /\ \E t \in Assemblies : Dispatch(tickMsg, t)
    /\ UNCHANGED sched

\* a key press; Update makes no query, so there is no answer to choose
DispatchKey ==
    \E k \in Keys :
        /\ k \in QuitKeys => quits < MaxQuits
        /\ Dispatch(KeyMsg(k), NoQuery)
        /\ UNCHANGED sched

\* a QuitMsg ends the loop; Run returns nil and main returns: exit status 0
QuitLoop ==
    /\ pc = "idle"
    /\ quits > 0
    /\ quits' = quits - 1
    /\ pc' = "exited"
    /\ exit' = "quit"
    /\ exitCode' = 0
    /\ ev' = Phase("quitmsg")
    /\ answers' = NoAnswers
    /\ UNCHANGED <<m, ticks, cycle, frame, stdout, stderr, call>>

DispatchQuit == QuitLoop /\ UNCHANGED sched

\* a View that grows the widget list to the snapshot's core count as it renders
RenderReconciling ==
    /\ pc = "view"
    /\ pc' = "idle"
    /\ m' = [m EXCEPT !.cpuProgress =
                  [i \in 1..Len(m.sys.cpu.percentUsage) |-> NewProgress]]
    /\ frame' = View(m')
    /\ UNCHANGED <<ticks, quits, ev, answers, cycle, exit, exitCode, stdout,
                   stderr, call, queue, late, clock>>

\* the loop calls model.View() after Init and after every Update
RenderView ==
    /\ pc = "view"
    /\ IF ViewPanics(m)
       THEN /\ pc' = "exited"
            /\ exit' = "panic"
            /\ exitCode' \in LoopPanicCodes
            /\ UNCHANGED frame
       ELSE /\ pc' = "idle"
            /\ frame' = View(m)
            /\ UNCHANGED <<exit, exitCode>>
    /\ UNCHANGED <<m, ticks, quits, ev, answers, cycle, stdout, stderr, call>>

Render == RenderView /\ UNCHANGED sched

Next ==
    \/ InitialModel
    \/ StartProgram
    \/ RunFails
    \/ DispatchTick
    \/ DispatchKey
    \/ DispatchQuit
    \/ Render

Spec == Init /\ [][Next]_vars

----------------------------------------------------------------------------
(* GetDiskMetrics and convertSize as pure calls *)

mainVars == <<pc, m, ticks, quits, ev, answers, cycle, frame, exit, exitCode,
              stdout, stderr, queue, late, clock>>

DiskInit ==
    /\ InitProgram
    /\ \E a \in DiskAnswers(DevicesEnum, MaxEnum) :
         call = [fn |-> "GetDiskMetrics", arg |-> a, done |-> FALSE, ret |-> <<>>]

DiskCall ==
    /\ call.fn = "GetDiskMetrics"
    /\ ~call.done
    /\ call' = [call EXCEPT !.done = TRUE, !.ret = GetDiskMetrics(call.arg, FALSE)]
    /\ UNCHANGED mainVars

DiskSpec == DiskInit /\ [][DiskCall]_vars

LimbSamples == {0, 1, 2, 500, 1023}
SizeSamples == {Norm(a) : a \in SeqsUpTo(LimbSamples, MaxLimbs)}

SizeInit ==
    /\ InitProgram
    /\ \E a \in SizeSamples :
         call = [fn |-> "convertSize", arg |-> a, done |-> FALSE, ret |-> ""]

SizeCall ==
    /\ call.fn = "convertSize"
    /\ ~call.done
    /\ call' = [call EXCEPT !.done = TRUE, !.ret = convertSize(call.arg)]
    /\ UNCHANGED mainVars

SizeSpec == SizeInit /\ [][SizeCall]_vars

----------------------------------------------------------------------------
(* TimeSpec: the loop with the time its steps take, in milliseconds *)

TickPeriod == 50          \* doTick: tea.Tick(50*time.Millisecond, ...)
SampleWindow == 1000      \* GetCPUMetrics: cpu.Percent(time.Second, true)

Max(a, b) == IF a >= b THEN a ELSE b

\* an assembly blocks for the sampling window, or longer when the other
\* queries are slow
Latencies == {SampleWindow, SampleWindow + TickPeriod}

\* how long after the timer's expiry the loop receives the tickMsg
Lateness == {0, 1, TickPeriod}

\* one machine: the queries fail, or report one core and no partition
SteadyAssemblies ==
    {t \in Assemblies : t[1].res = "ok" => (t[1].n = 1 /\ t[3].parts = <<>>)}

\* d milliseconds pass
Elapse(c, d) ==
    [c EXCEPT !.since = IF @ = NoTime THEN @ ELSE @ + d,
              !.timer = IF @ = NoTime THEN @ ELSE Max(0, @ - d)]

\* initialModel is the first assembly: it returns after its latency
InitialModelTimed ==
    /\ InitialModelFrom(SteadyAssemblies)
    /\ \E l \in Latencies :
         clock' = [since |-> l, timer |-> NoTime, latency |-> l,
                   prev |-> NoTime, interval |-> NoTime]
    /\ UNCHANGED <<queue, late>>

\* model.Init returns doTick(): the timer starts when the command runs
StartTimed ==
    /\ StartLoop
    /\ clock' = [clock EXCEPT !.timer = TickPeriod]
    /\ UNCHANGED <<queue, late>>

\* the idle loop blocks until the timer has expired and its tickMsg is received
WaitTimer ==
    /\ pc = "idle"
    /\ clock.timer > 0
    /\ \E d \in Lateness : clock' = Elapse(clock, clock.timer + d)
    /\ UNCHANGED <<pc, m, ticks, quits, ev, answers, cycle, frame, exit,
                   exitCode, stdout, stderr, call, queue, late>>

\* the tickMsg case with a time.Ticker in place of doTick: the period runs
\* from the start of the assembly
DispatchTickTicker ==
    /\ clock.timer = 0
    /\ \E t \in SteadyAssemblies : Dispatch(tickMsg, t)
    /\ \E l \in Latencies :
         clock' = [since |-> l,
                   timer |-> IF ticks' > 0 THEN Max(0, TickPeriod - l) ELSE NoTime,
                   latency |-> l, prev |-> clock.latency,
                   interval |-> clock.since]
    /\ UNCHANGED <<queue, late>>

\* the tickMsg case: Update blocks for the assembly's latency, then returns
\* doTick(), whose timer starts when the returned command runs
DispatchTickTimed ==
    /\ clock.timer = 0
    /\ \E t \in SteadyAssemblies : Dispatch(tickMsg, t)
    /\ \E l \in Latencies :
         clock' = [since |-> l,
                   timer |-> IF ticks' > 0 THEN TickPeriod ELSE NoTime,
                   latency |-> l, prev |-> clock.latency,
                   interval |-> clock.since]
    /\ UNCHANGED <<queue, late>>

\* key handling, rendering and leaving take no measurable time
TimeNext ==
    \/ InitialModelTimed
    \/ StartTimed
    \/ RunFails
    \/ WaitTimer
    \/ DispatchTickTimed
    \/ DispatchKey
    \/ DispatchQuit
    \/ Render

TimeSpec == Init /\ [][TimeNext]_vars

----------------------------------------------------------------------------
(* QueueSpec: the loop with the channel its messages wait on.  Key presses,
   expired timers and the QuitMsg of tea.Quit are sent to one channel by their
   own goroutines and received by the loop in the order they were sent. *)

QuitMsg == Phase("quitmsg")

Count(q, msgs) == Cardinality({i \in 1..Len(q) : q[i] \in msgs})
QuitKeyMsgs == {KeyMsg(k) : k \in QuitKeys}

InitialModelQueued == InitialModelFrom(SteadyAssemblies) /\ UNCHANGED sched

\* the input reader sends a key press
KeyArrives ==
    /\ pc \in {"view", "idle"}
    /\ Count(queue, {KeyMsg(k) : k \in Keys}) < MaxPending
    /\ \E k \in Keys :
         /\ k \in QuitKeys => Count(queue, QuitKeyMsgs) + quits < MaxQuits
         /\ queue' = Append(queue, KeyMsg(k))
    /\ UNCHANGED <<pc, m, ticks, quits, ev, answers, cycle, frame, exit,
                   exitCode, stdout, stderr, call, late, clock>>

\* the timer of doTick expires and its goroutine sends the tickMsg
TimerFires ==
    /\ pc \in {"view", "idle"}
    /\ ticks > Count(queue, {tickMsg})
    /\ queue' = Append(queue, tickMsg)
    /\ UNCHANGED <<pc, m, ticks, quits, ev, answers, cycle, frame, exit,
                   exitCode, stdout, stderr, call, late, clock>>

\* the goroutine running tea.Quit sends its QuitMsg
QuitSent ==
    /\ pc \in {"view", "idle"}
    /\ quits > Count(queue, {QuitMsg})
    /\ queue' = Append(queue, QuitMsg)
    /\ UNCHANGED <<pc, m, ticks, quits, ev, answers, cycle, frame, exit,
                   exitCode, stdout, stderr, call, late, clock>>

\* the loop receives a tickMsg: one assembly.  An assembly blocks for a
\* second, so a tea.Quit returned before it starts has sent its QuitMsg by
\* the time it ends; the message is behind the tickMsg either way.
ReceiveTick ==
    /\ queue # <<>> /\ Head(queue) = tickMsg
    /\ quits = Count(queue, {QuitMsg})
    /\ \E t \in SteadyAssemblies : Dispatch(tickMsg, t)
    /\ queue' = Tail(queue)
    /\ late' = late + (IF quits > 0 THEN 1 ELSE 0)
    /\ UNCHANGED clock

ReceiveKey ==
    /\ queue # <<>> /\ Head(queue).type = "key"
    /\ Dispatch(Head(queue), NoQuery)
    /\ queue' = Tail(queue)
    /\ UNCHANGED <<late, clock>>

ReceiveQuit ==
    /\ queue # <<>> /\ Head(queue) = QuitMsg
    /\ QuitLoop
    /\ queue' = Tail(queue)
    /\ UNCHANGED <<late, clock>>

QueueNext ==
    \/ InitialModelQueued
    \/ StartProgram
    \/ RunFails
    \/ KeyArrives
    \/ TimerFires
    \/ QuitSent
    \/ ReceiveTick
    \/ ReceiveKey
    \/ ReceiveQuit
    \/ Render

\* the loop and the goroutines of the commands keep running
QueueSpec ==
    /\ Init /\ [][QueueNext]_vars
    /\ WF_vars(Render) /\ WF_vars(QuitSent)
    /\ WF_vars(ReceiveTick) /\ WF_vars(ReceiveKey) /\ WF_vars(ReceiveQuit)

----------------------------------------------------------------------------
(* Properties *)

MiB(n) == Norm(<<n, 0, 0>>)          \* n * 1024 * 1024 bytes
GiB(n) == Norm(<<n, 0, 0, 0>>)       \* n * 1024 * 1024 * 1024 bytes

\* the number a base-1024 limb sequence stands for (below 2^31 only)
RECURSIVE LimbValue(_)
LimbValue(a) ==
    IF a = <<>> THEN 0
    ELSE LimbValue(SubSeq(a, 1, Len(a) - 1)) * Kibi + a[Len(a)]

\* floor(b / 1024^2): b without its two lowest base-1024 limbs
WholeMiB(b) == IF Len(b) <= 2 THEN 0 ELSE LimbValue(SubSeq(b, 1, Len(b) - 2))

HasErr(a) == "err" \in {a.cpu, a.mem, a.disk}
AllOk(a) == a = [cpu |-> "ok", mem |-> "ok", disk |-> "ok"]

\* C1: after a tick is handled the per-core widget list is as long as the new
\* snapshot's per-core usage list, and no render indexes outside the widget
\* list, whatever core counts the provider returns.
C1_WidgetListReconciled ==
    /\ (ev.type = "tick" /\ pc = "view") =>
           Len(m.cpuProgress) = Len(m.sys.cpu.percentUsage)
    /\ pc = "view" => ~ViewPanics(m)

\* C2: when the enumeration succeeds, GetDiskMetrics returns no error and its
\* partition list is exactly the partitions whose usage query succeeded, in
\* enumeration order.
C2_PartialDiskFailure ==
    (call.fn = "GetDiskMetrics" /\ call.done /\ ~call.arg.err) =>
        LET okParts == SelectSeq(call.arg.parts, LAMBDA p : p.ok)
            got     == call.ret.val.mountedPartitions
        IN  /\ ~call.ret.err
            /\ Len(got) = Len(okParts)
            /\ \A i \in 1..Len(got) : got[i] = PartitionMetrics(okParts[i])

\* [A(ok), B(fails), C(ok)] was assembled into [A, C]
C2_Witness ==
    /\ call.fn = "GetDiskMetrics"
    /\ call.done
    /\ call.arg.parts = <<[dev |-> "sda1", ok |-> TRUE],
                          [dev |-> "sdb1", ok |-> FALSE],
                          [dev |-> "sdc1", ok |-> TRUE]>>
    /\ Len(call.ret.val.mountedPartitions) = 2
    /\ call.ret.val.mountedPartitions[1].devName = "/dev/sda1"
    /\ call.ret.val.mountedPartitions[2].devName = "/dev/sdc1"

\* C3: convertSize returns "500M" for 500*1024*1024, "2G" for
\* 2*1024*1024*1024, "1023M" for 1023*1024*1024 and "1G" for 1024*1024*1024.
C3_FormatExamples ==
    (call.fn = "convertSize" /\ call.done) =>
        /\ call.arg = MiB(500) => call.ret = "500M"
        /\ call.arg = GiB(2) => call.ret = "2G"
        /\ call.arg = MiB(1023) => call.ret = "1023M"
        /\ call.arg = GiB(1) => call.ret = "1G"

\* convertSize has returned for 1024*1024*1024 bytes
C3_Witness ==
    call.fn = "convertSize" /\ call.done /\ call.arg = GiB(1) /\ call.ret = "1G"

\* C4: a failing CPU, memory or disk-enumeration query during initialModel
\* ends the process before the event loop starts and before any frame; the
\* loop starts only on a first assembly whose three queries all succeeded.
C4_FatalAtStartup ==
    ev.type = "initialModel" =>
        IF AllOk(answers) THEN pc = "run"
        ELSE /\ pc = "exited"
             /\ exit \in {"fatal", "panic"}
             /\ HasErr(answers) => (exit = "fatal" /\ exitCode = 1 /\ stderr # <<>>)
             /\ frame = NoFrame
             /\ ticks = 0
             /\ m = ZeroModel

\* the CPU query failed in initialModel and the process is gone
C4_Witness ==
    ev.type = "initialModel" /\ answers.cpu = "err" /\ exit = "fatal"

\* C5: a failing query while a tick is handled is fatal: the model is not
\* changed, the timer is not re-armed, nothing runs afterwards (no retry, no
\* frame), and a tick changes the model only after all three queries succeeded.
C5_FailFastOnRefresh ==
    [][ /\ (pc = "idle" /\ ev'.type = "tick" /\ HasErr(answers')) =>
               /\ pc' = "exited"
               /\ exit' = "fatal"
               /\ exitCode' = 1
               /\ m' = m
               /\ frame' = frame
               /\ ticks' = ticks - 1
               /\ quits' = quits
        /\ (pc = "idle" /\ ev'.type = "tick" /\ m' # m) => AllOk(answers')
        /\ exit = "fatal" => UNCHANGED vars ]_vars

\* the disk enumeration failed during a tick, after frames had been rendered
C5_Witness ==
    /\ ev.type = "tick"
    /\ answers = [cpu |-> "ok", mem |-> "ok", disk |-> "err"]
    /\ exit = "fatal"
    /\ frame.rendered
    /\ ticks = 0

\* C6: handling "q" or "ctrl+c" issues the quit command and nothing else (no
\* query, same model, no timer armed); the quit message ends the loop; and
\* after that nothing changes any more.
C6_QuitTransition ==
    [][ /\ (pc = "idle" /\ ev'.type = "key" /\ ev'.key \in QuitKeys) =>
               /\ quits' = quits + 1
               /\ m' = m
               /\ ticks' = ticks
               /\ cycle' = cycle
               /\ answers' = NoAnswers
               /\ exit' = "none"
        /\ (pc = "idle" /\ ev'.type = "quitmsg") =>
               /\ pc' = "exited"
               /\ exit' = "quit"
               /\ m' = m
               /\ ticks' = ticks
               /\ cycle' = cycle
        /\ exit = "quit" => UNCHANGED vars ]_vars

\* "ctrl+c" was handled and its quit message ended the loop
C6_Witness ==
    exit = "quit" /\ ev.type = "quitmsg" /\ pc = "exited" /\ frame.rendered

\* C7: every state the loop renders yields a frame with exactly one per-core
\* line per entry of percentUsage, entry i labelled CPU i+1 and drawn with
\* widget i.
C7_OneLinePerCore ==
    pc = "view" =>
        /\ ~ViewPanics(m)
        /\ Len(View(m).cpuLines) = Len(m.sys.cpu.percentUsage)
        /\ \A j \in 1..Len(m.sys.cpu.percentUsage) :
               /\ View(m).cpuLines[j].label = "CPU " \o Itoa(j) \o ": "
               /\ View(m).cpuLines[j].bar =
                      ViewAs(m.cpuProgress[j], m.sys.cpu.percentUsage[j], 100)

\* C8: exit status 0 after a clean quit; when p.Run fails, exit status 1 with
\* the message on standard error and nothing on standard output.
C8_ExitContract ==
    /\ exit = "quit" => exitCode = 0
    /\ exit = "runerr" => (exitCode = 1 /\ stderr # <<>> /\ stdout = <<>>)

\* C9: a render changes nothing but the frame (model, timers, pending quit
\* messages are untouched), and re-rendering after a key press, which is a
\* second render of the same dashboard state, produces the identical frame.
C9_RenderPure ==
    [][ pc = "view" =>
            /\ m' = m
            /\ ticks' = ticks
            /\ quits' = quits
            /\ cycle' = cycle
            /\ (pc' = "idle" /\ ev.type = "key") => frame' = frame ]_vars

\* the dashboard was rendered again after a key press
C9_Witness ==
    pc = "idle" /\ ev = KeyMsg("x") /\ frame.rendered /\ Len(frame.cpuLines) > 0

\* C10: whenever the loop holds a model it can render, the CPU, memory and
\* disk readings of its snapshot carry the stamp of one assembly, the latest.
C10_SnapshotAtomic ==
    pc \in {"run", "view", "idle"} =>
        /\ m.sys.cpu.cycle = ~cycle
        /\ m.sys.memory.cycle = ~cycle
        /\ m.sys.disk.cycle = ~cycle

\* a tick has replaced the initial snapshot and the new one is to be rendered
C10_Witness ==
    pc = "view" /\ ev.type = "tick" /\ m.sys.cpu.cycle /\ m.sys.disk.cycle

\* C11: at most one tick is armed, pending or being handled at any time;
\* model.Init arms exactly one timer, a successfully handled tick consumes one
\* and arms exactly one (only once all three queries have answered), a failed
\* tick arms none, and no key press or quit message arms or cancels a timer.
C11_NoPileUp ==
    [][ /\ ticks <= 1
        /\ ticks' <= 1
        /\ (pc = "run" /\ pc' = "view") => (ticks = 0 /\ ticks' = 1)
        /\ (pc = "idle" /\ cycle' # cycle /\ pc' = "view") =>
               /\ ticks = 1
               /\ ticks' = 1
               /\ answers' = [cpu |-> "ok", mem |-> "ok", disk |-> "ok"]
        /\ (pc = "idle" /\ cycle' # cycle /\ pc' = "exited") => ticks' = 0
        /\ (pc # "run" /\ cycle' = cycle) => ticks' = ticks ]_vars

\* a tick was handled and the loop waits again with one timer armed
C11_Witness ==
    pc = "idle" /\ ev.type = "tick" /\ ticks = 1 /\ answers.disk = "ok"

C15_NonQuitKeysInert ==
    [][ (pc = "idle" /\ ev'.type = "key" /\ ev'.key \notin QuitKeys) =>
            /\ m' = m
            /\ ticks' = ticks
            /\ quits' = quits
            /\ cycle' = cycle
            /\ answers' = NoAnswers
            /\ pc' = "view"
            /\ exit' = exit
            /\ frame' = frame ]_vars

\* "x" was handled after a tick, with the timer of that tick still armed
C15_Witness ==
    pc = "view" /\ ev = KeyMsg("x") /\ ticks = 1 /\ ~m.sys.cpu.cycle

\* C16: in the state a handled tick leaves, handling another tick whose
\* provider results equal the snapshot just stored leaves the whole model
\* (snapshot, per-core widgets, memory widget, disk table rows and height) as
\* it is, and arms the next timer.
C16_Idempotent ==
    (pc \in {"view", "idle"} /\ ev.type = "tick") =>
        \A t \in Assemblies :
            LET r == UpdateTick(m, t[1], t[2], t[3], ~cycle)
            IN  (r.outcome = "ok" /\ r.model.sys = m.sys) =>
                    (r.model = m /\ r.cmd = "tick")

\* a tick stored a snapshot with cores and a partition that the provider can
\* report again
C16_Witness ==
    /\ pc = "idle" /\ ev.type = "tick"
    /\ Len(m.sys.cpu.percentUsage) > 0 /\ Len(m.cpuProgress) > 0
    /\ Len(m.diskTable.rows) > 0
    /\ \E t \in Assemblies :
           LET r == UpdateTick(m, t[1], t[2], t[3], ~cycle)
           IN  r.outcome = "ok" /\ r.model.sys = m.sys

\* C14: for every byte count b, with mb = floor(b / 1024^2), convertSize
\* returns the decimal numeral of floor(mb / 1024) followed by "G" when
\* mb >= 1024 and the decimal numeral of mb followed by "M" otherwise: whole
\* numbers only, "0M" below 1 MiB, and an "M" number below 1024.
C14_SizeRule ==
    (call.fn = "convertSize" /\ call.done) =>
        LET mb == WholeMiB(call.arg)
        IN  /\ mb >= Kibi => call.ret = ToString(mb \div Kibi) \o "G"
            /\ mb < Kibi => call.ret = ToString(mb) \o "M"
            /\ Len(call.arg) <= 2 => call.ret = "0M"

\* convertSize has returned for 1024*1024 - 1 bytes, one byte short of 1 MiB
C14_Witness ==
    /\ call.fn = "convertSize" /\ call.done
    /\ call.arg = <<Kibi - 1, Kibi - 1>> /\ call.ret = "0M"

\* C17 (as stated): the interval between the starts of two consecutive
\* assemblies is max(P, L), P the configured period and L the latency of the
\* first of the two.
C17_PeriodIsMax ==
    clock.interval # NoTime => clock.interval = Max(TickPeriod, clock.prev)

\* C17 (amended): the interval between the starts of two consecutive
\* assemblies is at least L + P, L the latency of the first of the two: when a
\* tick has been handled the timer has its full period P left, whatever time
\* the assembly took and however late its tickMsg was received.
C17_PeriodAddsLatency ==
    /\ clock.interval # NoTime => clock.interval >= clock.prev + TickPeriod
    /\ (pc = "view" /\ ev.type = "tick") =>
           (clock.timer = TickPeriod /\ clock.since = clock.latency)

\* two assemblies started 1050 ms apart: the first took 1000 ms and the tickMsg
\* of the second was received as its timer expired
C17_Witness ==
    /\ ev.type = "tick" /\ pc = "idle"
    /\ clock.prev = SampleWindow
    /\ clock.interval = SampleWindow + TickPeriod

\* C12: when an assembly that ran while a quit key was waiting has completed,
\* no tickMsg is ahead of that key; once Update has returned tea.Quit at most
\* one further assembly starts; and a quit key that has arrived leads to the
\* end of the process.
C12_QuitWithinOneCycle ==
    /\ [](late <= 1)
    /\ [][(pc = "idle" /\ cycle' # cycle) => Count(queue', {tickMsg}) = 0]_vars
    /\ (Count(queue, QuitKeyMsgs) > 0) ~> (pc = "exited")

\* the loop ended on a QuitMsg after one assembly had started with the quit
\* command pending
C12_Witness ==
    pc = "exited" /\ exit = "quit" /\ ev = QuitMsg /\ late = 1

====
